---------------------------- MODULE Spec2Model ----------------------------
(***************************************************************************)
(* A model of the tool-dispatch core of wdrmcp: the ToolRegistry, the      *)
(* CommandToolExecutor (container and injected-backend variants), the      *)
(* docker helpers with their two process-wide caches, and the argument     *)
(* preprocessor (path normalisation).                                      *)
(*                                                                         *)
(* Strings are sequences of one-character strings over a small alphabet,   *)
(* so that prefix tests, slicing, placeholder scanning and substring       *)
(* (regular-expression) tests are computed the way the code computes them. *)
(***************************************************************************)
EXTENDS Integers, Sequences, FiniteSets, TLC

VARIABLES
    hostRoot,            \* BridgeConfig.hostProjectRoot
    containerRoot,       \* BridgeConfig.containerProjectRoot
    probe,               \* inputs and results of a pure function under test
    variant,             \* which CommandToolExecutor class the registry imports
    ddevProject,         \* BridgeConfig.ddevProject
    configFiles,         \* the parsed *.yml files, sorted, each a tools array
    loadAt,              \* loadTools: <<file, entry>> being loaded, or done
    tools,               \* ToolRegistry.tools, in insertion order
    loadedCount,         \* the count loadTools returns
    registrations,       \* every this.tools.set made so far, in order
    discoveries,         \* per discovering definition: timer won? list fetched
    validatedContainers, \* docker: cache of validated <<container, project>>
    uidCache,            \* docker: cache <<container, path>> -> uid
    calls                \* the executeTool calls in progress, one per caller

config  == <<hostRoot, containerRoot, variant, ddevProject, configFiles>>
loading == <<loadAt, tools, loadedCount, registrations, discoveries>>
caches  == <<validatedContainers, uidCache>>
vars    == <<hostRoot, containerRoot, probe, variant, ddevProject, configFiles,
             loadAt, tools, loadedCount, registrations, discoveries,
             validatedContainers, uidCache, calls>>

-----------------------------------------------------------------------------
(* Bounds of the model.                                                    *)

\* Longest leaf string drawn as an argument value.
MaxStrLen == 3
\* Most path segments of a project root.
MaxRootSegs == 2
\* Most validation rules of one command tool.
MaxRules == 2
\* Number of callers that may each have one executeTool call in progress.
MaxCallers == 2
\* Depth of nested calls the engine's call stack holds (a scaled-down stand-in
\* for the engine's limit; recursion deeper than this throws RangeError).
MaxCallStack == 6
\* Most entries of the tools array of one file.
MaxEntries == 2

-----------------------------------------------------------------------------
(* Strings.                                                                *)

\* The characters argument strings and roots are written with.
PathAlphabet == {"/", "w", "v"}

\* All strings over alphabet a of length at most n.
StringsUpTo(a, n) == UNION {[1..k -> a] : k \in 0..n}

\* String.prototype.startsWith
startsWith(s, p) ==
    /\ Len(s) >= Len(p)
    /\ SubSeq(s, 1, Len(p)) = p

\* String.prototype.slice(n)
slice(s, n) == SubSeq(s, n + 1, Len(s))

\* String.prototype.includes
includes(s, p) ==
    \E i \in 0..(Len(s) - Len(p)) : SubSeq(s, i + 1, i + Len(p)) = p

-----------------------------------------------------------------------------
(* JSON values: the argument structures a dispatch carries.                *)

Str(s)     == [t |-> "str", s |-> s]
Arr(items) == [t |-> "arr", items |-> items]
Obj(ents)  == [t |-> "obj", entries |-> ents]    \* entries in insertion order
Num        == [t |-> "num"]
Null       == [t |-> "null"]
KV(k, v)   == [k |-> k, v |-> v]

-----------------------------------------------------------------------------
(* ToolRegistry.normalizePaths                                             *)

\* The string case of normalize: the prefix test and the rewrite.
normalizeString_noBoundary(v, hRoot, cRoot) ==
    IF startsWith(v, hRoot)
    THEN cRoot \o slice(v, Len(hRoot))
    ELSE v

normalizeString(v, hRoot, cRoot) ==
    IF startsWith(v, hRoot \o <<"/">>)
    THEN cRoot \o slice(v, Len(hRoot))
    ELSE v

RECURSIVE normalize(_, _, _)
normalize(v, hRoot, cRoot) ==
    CASE v.t = "str" -> Str(normalizeString(v.s, hRoot, cRoot))
      [] v.t = "arr" ->
            Arr([i \in 1..Len(v.items) |-> normalize(v.items[i], hRoot, cRoot)])
      [] v.t = "obj" ->
            Obj([i \in 1..Len(v.entries) |->
                    KV(v.entries[i].k, normalize(v.entries[i].v, hRoot, cRoot))])
      [] OTHER -> v

normalizePaths(value, hRoot, cRoot) == normalize(value, hRoot, cRoot)

\* The registry's preprocessor, bound to the configured roots at construction.
argPreprocessor_emptyHost(args) == normalizePaths(args, <<>>, containerRoot)

argPreprocessor(args) == normalizePaths(args, hostRoot, containerRoot)

-----------------------------------------------------------------------------
(* CommandToolExecutor: placeholders, rendering, rules, validateArguments. *)
(* Both variants of the class share this code line for line.               *)

\* The characters \w matches, among those the model writes strings with.
WordChars == {"a", "c", "d", "h", "l", "m", "n", "o", "p", "r", "s", "t", "x",
              "w", "v", "A", "B", "3", "_"}

\* Last index of the run of \w characters of s that starts at i (i - 1: none).
RECURSIVE WordRunEnd(_, _)
WordRunEnd(s, i) ==
    IF i <= Len(s) /\ s[i] \in WordChars THEN WordRunEnd(s, i + 1) ELSE i - 1

\* Whether /\{(\w+)\}/ matches s at index i.
PlaceholderAt(s, i) ==
    /\ i <= Len(s)
    /\ s[i] = "{"
    /\ LET e == WordRunEnd(s, i + 1) IN
          e >= i + 1 /\ e + 1 <= Len(s) /\ s[e + 1] = "}"

\* [...template.matchAll(/\{(\w+)\}/g)].map(m => m[1]), scanning from index i.
RECURSIVE matchAllPlaceholders(_, _)
matchAllPlaceholders(tpl, i) ==
    IF i > Len(tpl) THEN <<>>
    ELSE IF PlaceholderAt(tpl, i)
         THEN LET e == WordRunEnd(tpl, i + 1) IN
              <<SubSeq(tpl, i + 1, e)>> \o matchAllPlaceholders(tpl, e + 2)
         ELSE matchAllPlaceholders(tpl, i + 1)

\* new Set(seq), as the sequence of its members in insertion order.
RECURSIVE SetOrder(_, _)
SetOrder(seq, acc) ==
    IF seq = <<>> THEN acc
    ELSE SetOrder(Tail(seq),
                  IF \E j \in 1..Len(acc) : acc[j] = Head(seq)
                  THEN acc ELSE Append(acc, Head(seq)))

\* Object.keys of a mapping.
ObjectKeys(o) == {o.entries[i].k : i \in 1..Len(o.entries)}

HasKey(o, k) == k \in ObjectKeys(o)

\* o[k] for an own key k: a later entry of the same key wins.
Get(o, k) ==
    LET idx == {i \in 1..Len(o.entries) : o.entries[i].k = k}
        last == CHOOSE i \in idx : \A j \in idx : j <= i
    IN  o.entries[last].v

\* { ...defaults, ...args }
mergeArgs(defaults, args) == Obj(defaults.entries \o args.entries)

\* String(value)
StringOf(v) ==
    CASE v.t = "str"  -> v.s
      [] v.t = "num"  -> <<"3">>
      [] v.t = "null" -> <<"n", "u", "l", "l">>
      [] OTHER        -> <<"[", "o", "]">>

\* template.replace(/\{(\w+)\}/g, ...): the rendered string, or the first
\* placeholder that is not in the merged arguments.
RECURSIVE renderFrom(_, _, _)
renderFrom(tpl, i, merged) ==
    IF i > Len(tpl) THEN [ok |-> TRUE, s |-> <<>>]
    ELSE IF PlaceholderAt(tpl, i)
         THEN LET e   == WordRunEnd(tpl, i + 1)
                  key == SubSeq(tpl, i + 1, e)
              IN  IF HasKey(merged, key)
                  THEN LET rest == renderFrom(tpl, e + 2, merged) IN
                       IF rest.ok
                       THEN [ok |-> TRUE, s |-> StringOf(Get(merged, key)) \o rest.s]
                       ELSE rest
                  ELSE [ok |-> FALSE, key |-> key]
         ELSE LET rest == renderFrom(tpl, i + 1, merged) IN
              IF rest.ok THEN [ok |-> TRUE, s |-> <<tpl[i]>> \o rest.s] ELSE rest

render(tpl, merged) == renderFrom(tpl, 1, merged)

\* JSON.stringify of a string, a scalar, a sequence or a mapping (the model's
\* strings hold no character that JSON escapes).
RECURSIVE stringify(_)
RECURSIVE stringifyItems(_, _)
RECURSIVE stringifyEntries(_, _)
stringify(v) ==
    CASE v.t = "str"  -> <<"\"">> \o v.s \o <<"\"">>
      [] v.t = "num"  -> <<"3">>
      [] v.t = "null" -> <<"n", "u", "l", "l">>
      [] v.t = "arr"  -> <<"[">> \o stringifyItems(v.items, 1) \o <<"]">>
      [] v.t = "obj"  -> <<"{">> \o stringifyEntries(v.entries, 1) \o <<"}">>
stringifyItems(items, i) ==
    IF i > Len(items) THEN <<>>
    ELSE (IF i > 1 THEN <<",">> ELSE <<>>)
         \o stringify(items[i]) \o stringifyItems(items, i + 1)
stringifyEntries(ents, i) ==
    IF i > Len(ents) THEN <<>>
    ELSE (IF i > 1 THEN <<",">> ELSE <<>>)
         \o <<"\"">> \o ents[i].k \o <<"\"", ":">>
         \o stringify(ents[i].v) \o stringifyEntries(ents, i + 1)

\* A rule without a message (message: null or absent in the YAML): a marker
\* that is no string of characters.
NoMessage == <<"undefined">>

\* new RegExp(pattern) succeeds. Patterns are literal texts; "(" alone opens a
\* group that is never closed, which the constructor rejects.
RegExpValid(pattern) == \A i \in 1..Len(pattern) : pattern[i] # "("

\* new RegExp(pattern).test(value) for a literal pattern: a substring test.
RegExpTest(pattern, value) == includes(value, pattern)

\* rule.message ?? `Validation failed for pattern: ${rule.pattern}`
RuleMessage(rule) ==
    IF rule.message = NoMessage
    THEN <<"V", ":">> \o rule.pattern
    ELSE rule.message

\* checkRules: null, the first matching rule's message, or the SyntaxError
\* of a pattern reached before any match.
RECURSIVE checkRulesFrom(_, _, _)
checkRulesFrom(rules, i, value) ==
    IF i > Len(rules) THEN [kind |-> "null"]
    ELSE IF rules[i].pattern = <<>> THEN checkRulesFrom(rules, i + 1, value)
    ELSE IF ~RegExpValid(rules[i].pattern) THEN [kind |-> "throw"]
    ELSE IF RegExpTest(rules[i].pattern, value)
         THEN [kind |-> "msg", msg |-> RuleMessage(rules[i])]
         ELSE checkRulesFrom(rules, i + 1, value)

checkRules(ex, value) == checkRulesFrom(ex.validationRules, 1, value)

\* if (ruleError): null and the empty string are both falsy.
Truthy(ruleError) == ruleError.kind = "msg" /\ ruleError.msg # <<>>

\* The placeholders of the template that neither mapping provides, in order.
missingOf_argsOnly(ex, args) ==
    SelectSeq(SetOrder(matchAllPlaceholders(ex.commandTemplate, 1), <<>>),
              LAMBDA p : p \notin ObjectKeys(args))

missingOf(ex, args) ==
    SelectSeq(SetOrder(matchAllPlaceholders(ex.commandTemplate, 1), <<>>),
              LAMBDA p : p \notin (ObjectKeys(ex.defaultArgs) \cup ObjectKeys(args)))

\* validateArguments: returns, or throws an Error.
validateArguments(ex, args) ==
    LET ruleError == checkRules(ex, stringify(args)) IN
    IF ruleError.kind = "throw"
    THEN [threw |-> TRUE, kind |-> "syntax"]
    ELSE IF Truthy(ruleError)
    THEN [threw |-> TRUE, kind |-> "rule", msg |-> ruleError.msg]
    ELSE IF Len(missingOf(ex, args)) > 0
    THEN [threw |-> TRUE, kind |-> "missing", names |-> missingOf(ex, args)]
    ELSE [threw |-> FALSE]

-----------------------------------------------------------------------------
(* Inputs of the path-normalisation specification.                         *)

\* "/" seg1 "/" seg2 ...
RECURSIVE RootOf(_)
RootOf(segs) ==
    IF segs = <<>> THEN <<>>
    ELSE <<"/", Head(segs)>> \o RootOf(Tail(segs))

Roots == {RootOf(segs) : segs \in StringsUpTo({"w", "v"}, MaxRootSegs) \ {<<>>}}

LeafStrings == StringsUpTo(PathAlphabet, MaxStrLen)

\* Argument structures around one leaf string: the string itself as a value,
\* inside sequences and mappings, as a mapping key, next to non-strings.
ArgShapes(s) ==
    { Obj(<<KV(<<"p">>, Str(s))>>),
      Obj(<<KV(s, Arr(<<Str(s), Num, Obj(<<KV(s, Str(s))>>)>>))>>),
      Obj(<<KV(<<"a">>, Arr(<<Arr(<<Str(s)>>)>>)), KV(<<"b">>, Null)>>) }

ArgValues == UNION {ArgShapes(s) : s \in LeafStrings}

NoValue == [t |-> "none"]

\* The registry, the caches and the callers play no part in a specification
\* that applies one pure function.
NoRegistry ==
    /\ variant = "container"
    /\ ddevProject = <<"default-project">>
    /\ configFiles = <<>>
    /\ loadAt = [file |-> 1, entry |-> 1, pc |-> "done"]
    /\ tools = <<>>
    /\ loadedCount = 0
    /\ registrations = <<>>
    /\ discoveries = <<>>
    /\ validatedContainers = {}
    /\ uidCache = <<>>
    /\ calls = <<>>

InitNormalize ==
    /\ NoRegistry
    /\ hostRoot \in Roots
    /\ containerRoot \in Roots
    /\ \E v \in ArgValues :
          probe = [stage |-> "input", v |-> v, once |-> NoValue, twice |-> NoValue]

\* normalizePaths applied to the drawn structure.
NormalizeOnce ==
    /\ probe.stage = "input"
    /\ probe' = [probe EXCEPT !.stage = "once", !.once = argPreprocessor(probe.v)]
    /\ UNCHANGED <<config, loading, caches, calls>>

\* normalizePaths applied to its own result.
NormalizeTwice ==
    /\ probe.stage = "once"
    /\ probe' = [probe EXCEPT !.stage = "twice", !.twice = argPreprocessor(probe.once)]
    /\ UNCHANGED <<config, loading, caches, calls>>

NextNormalize == NormalizeOnce \/ NormalizeTwice

SpecNormalize == InitNormalize /\ [][NextNormalize]_vars

-----------------------------------------------------------------------------
(* Claims about path normalisation.                                        *)

\* The roots differ and one of them, taken with its separator, is a prefix
\* of the other taken with its separator (one root lies inside the other).
RootsOverlap ==
    /\ hostRoot # containerRoot
    /\ \/ startsWith(containerRoot \o <<"/">>, hostRoot \o <<"/">>)
       \/ startsWith(hostRoot \o <<"/">>, containerRoot \o <<"/">>)

\* C7 (as stated): for every hostRoot, containerRoot and argument structure,
\* normalising the normalised structure gives the normalised structure.
C7_IdempotentAnyRoots ==
    probe.stage = "twice" => probe.twice = probe.once

\* C7 (amended): unless one root lies inside the other (the roots differ and
\* one followed by "/" is a prefix of the other followed by "/"), normalising
\* the normalised structure returns it unchanged.
C7_IdempotentDisjointRoots ==
    (probe.stage = "twice" /\ ~RootsOverlap) => probe.twice = probe.once

\* A second normalisation ran on a structure the first one rewrote, under
\* roots that do not overlap.
C7_Witness ==
    /\ probe.stage = "twice"
    /\ ~RootsOverlap
    /\ probe.once # probe.v

\* out is v with exactly the strings that begin with hostRoot + "/" rewritten
\* to containerRoot followed by what followed hostRoot; same shape, same keys.
RECURSIVE RewrittenExactly(_, _)
RewrittenExactly(v, out) ==
    /\ out.t = v.t
    /\ CASE v.t = "str" ->
              LET hp == hostRoot \o <<"/">> IN
              IF Len(v.s) >= Len(hp) /\ \A i \in 1..Len(hp) : v.s[i] = hp[i]
              THEN /\ Len(out.s) = Len(containerRoot) + Len(v.s) - Len(hostRoot)
                   /\ \A i \in 1..Len(containerRoot) : out.s[i] = containerRoot[i]
                   /\ \A i \in (Len(hostRoot) + 1)..Len(v.s) :
                         out.s[Len(containerRoot) + i - Len(hostRoot)] = v.s[i]
              ELSE out.s = v.s
         [] v.t = "arr" ->
              /\ Len(out.items) = Len(v.items)
              /\ \A i \in 1..Len(v.items) : RewrittenExactly(v.items[i], out.items[i])
         [] v.t = "obj" ->
              /\ Len(out.entries) = Len(v.entries)
              /\ \A i \in 1..Len(v.entries) :
                    /\ out.entries[i].k = v.entries[i].k
                    /\ RewrittenExactly(v.entries[i].v, out.entries[i].v)
         [] OTHER -> out = v

\* C8: normalizePaths rewrites exactly the strings beginning with
\* hostRoot + "/", at any depth, to containerRoot + the remainder after
\* hostRoot; every other value and every mapping key is unchanged.
C8_RewritesExactlyPrefixed ==
    probe.stage \in {"once", "twice"} => RewrittenExactly(probe.v, probe.once)

\* The structure held, nested in a sequence in a mapping under a key that
\* itself begins with hostRoot + "/", a string that shares hostRoot as a
\* prefix without the "/" boundary, and it came back unchanged ...
C8_WitnessBoundary ==
    /\ probe.stage = "once"
    /\ \E s \in LeafStrings :
          /\ startsWith(s, hostRoot)
          /\ Len(s) > Len(hostRoot)
          /\ ~startsWith(s, hostRoot \o <<"/">>)
          /\ probe.v = Obj(<<KV(<<"a">>, Arr(<<Arr(<<Str(s)>>)>>)), KV(<<"b">>, Null)>>)
          /\ probe.once = probe.v

\* ... and a structure with a prefixed string at depth was rewritten there
\* while its equally prefixed key was kept.
C8_Witness ==
    /\ probe.stage = "once"
    /\ \E s \in LeafStrings :
          /\ startsWith(s, hostRoot \o <<"/">>)
          /\ probe.v = Obj(<<KV(s, Arr(<<Str(s), Num, Obj(<<KV(s, Str(s))>>)>>))>>)
          /\ probe.once.entries[1].k = s
          /\ probe.once.entries[1].v.items[1].s = containerRoot \o slice(s, Len(hostRoot))
          /\ probe.once # probe.v

-----------------------------------------------------------------------------
(* Inputs of the argument-validation specification.                        *)

kCommand == <<"c", "o", "m", "m", "a", "n", "d">>
kPath    == <<"p", "a", "t", "h">>
kX       == <<"x">>
sRm      == <<"r", "m">>
sLs      == <<"l", "s">>
sDir     == <<"/", "w">>
sFile    == <<"/", "w", "/", "x">>

Ph(k) == <<"{">> \o k \o <<"}">>

\* "{command} {path}", "{command} {command}", "{-} {path}{x}"
Templates ==
    { Ph(kCommand) \o <<" ">> \o Ph(kPath),
      Ph(kCommand) \o <<" ">> \o Ph(kCommand),
      Ph(<<"-">>) \o <<" ">> \o Ph(kPath) \o Ph(kX) }

DefaultArgSets ==
    { Obj(<<>>), Obj(<<KV(kPath, Str(sDir))>>), Obj(<<KV(kCommand, Str(sRm))>>) }

SuppliedArgSets ==
    { Obj(<<>>),
      Obj(<<KV(kCommand, Str(sRm))>>),
      Obj(<<KV(kCommand, Str(sLs)), KV(kPath, Str(sFile))>>),
      Obj(<<KV(kX, Num)>>),
      Obj(<<KV(kPath, Str(Ph(kCommand)))>>) }

RulePatterns == {sRm, <<"m">>, <<>>, <<"(">>}
RuleMessages == {<<"A">>, <<"B">>, <<>>, NoMessage}
Rules        == [pattern : RulePatterns, message : RuleMessages]
RuleLists    == UNION {[1..n -> Rules] : n \in 0..MaxRules}

InitValidate ==
    /\ NoRegistry
    /\ hostRoot = <<"/", "w">>
    /\ containerRoot = <<"/", "v">>
    /\ \E tpl \in Templates, d \in DefaultArgSets, r \in RuleLists, a \in SuppliedArgSets :
          probe = [stage |-> "input",
                   ex |-> [commandTemplate |-> tpl, defaultArgs |-> d, validationRules |-> r],
                   args |-> a,
                   validated |-> NoValue,
                   gate |-> NoValue]

\* executor.validateArguments(args)
ProbeValidateArguments ==
    /\ probe.stage = "input"
    /\ probe' = [probe EXCEPT !.stage = "validated",
                              !.validated = validateArguments(probe.ex, probe.args)]
    /\ UNCHANGED <<config, loading, caches, calls>>

\* The rendering and rule check of execute, taken on their own: the error
\* envelope returned, the exception thrown, or the rendered command to run.
renderAndCheck(ex, args) ==
    LET r == render(ex.commandTemplate, mergeArgs(ex.defaultArgs, args)) IN
    IF ~r.ok
    THEN [out |-> "return", isError |-> TRUE,
          content |-> [prefix |-> "Error: Missing required argument: ", text |-> r.key]]
    ELSE LET ruleError == checkRules(ex, r.s) IN
         IF ruleError.kind = "throw" THEN [out |-> "throw", cmdStr |-> r.s]
         ELSE IF Truthy(ruleError)
         THEN [out |-> "return", isError |-> TRUE, cmdStr |-> r.s,
               content |-> [prefix |-> "Validation error: ", text |-> ruleError.msg]]
         ELSE [out |-> "proceed", cmdStr |-> r.s]

ProbeRenderAndCheck ==
    /\ probe.stage = "validated"
    /\ probe' = [probe EXCEPT !.stage = "gated",
                              !.gate = renderAndCheck(probe.ex, probe.args)]
    /\ UNCHANGED <<config, loading, caches, calls>>

-----------------------------------------------------------------------------
(* Claims about argument validation and rule checking.                     *)

\* k is written as a placeholder {k} somewhere in the template.
IsPlaceholderOf(tpl, k) ==
    /\ k # <<>>
    /\ \A i \in 1..Len(k) : k[i] \in WordChars
    /\ includes(tpl, <<"{">> \o k \o <<"}">>)

\* The placeholder names that are a key of neither mapping.
MissingNames ==
    {k \in {SubSeq(probe.ex.commandTemplate, i, j) :
                i, j \in 1..Len(probe.ex.commandTemplate)} :
        /\ IsPlaceholderOf(probe.ex.commandTemplate, k)
        /\ ~HasKey(probe.ex.defaultArgs, k)
        /\ ~HasKey(probe.args, k)}

ListsExactlyMissing(outcome) ==
    /\ outcome.threw
    /\ outcome.kind = "missing"
    /\ {outcome.names[i] : i \in 1..Len(outcome.names)} = MissingNames
    /\ Len(outcome.names) = Cardinality(MissingNames)

\* No rule's pattern is found in the JSON text of the supplied arguments.
NoRuleConcernsArgs ==
    \A i \in 1..Len(probe.ex.validationRules) :
        LET pat == probe.ex.validationRules[i].pattern IN
        \/ pat = <<>>
        \/ RegExpValid(pat) /\ ~includes(stringify(probe.args), pat)

SomeRuleMatchesRendered ==
    /\ probe.stage = "gated"
    /\ probe.gate.out # "return" \/ probe.gate.content.prefix = "Validation error: "
    /\ \A i \in 1..Len(probe.ex.validationRules) :
          /\ probe.ex.validationRules[i].pattern # <<>>
          /\ RegExpValid(probe.ex.validationRules[i].pattern)
    /\ \E i \in 1..Len(probe.ex.validationRules) :
          includes(probe.gate.cmdStr, probe.ex.validationRules[i].pattern)

FirstMatchingRule ==
    LET rs == probe.ex.validationRules
        m  == {i \in 1..Len(rs) : includes(probe.gate.cmdStr, rs[i].pattern)}
    IN  rs[CHOOSE i \in m : \A j \in m : i <= j]

\* C6: for every ordered rule list and every value matching at least one
\* rule's pattern, the outcome is a validation failure carrying the message
\* of the first matching rule in list order. (Stated here for well-formed
\* rule lists only.)
C6_FirstMatchWins ==
    SomeRuleMatchesRendered =>
        /\ probe.gate.out = "return"
        /\ probe.gate.isError
        /\ probe.gate.content =
              [prefix |-> "Validation error: ", text |-> RuleMessage(FirstMatchingRule)]

-----------------------------------------------------------------------------
(* docker helpers: static safety, identity resolution, ownership.          *)

\* DANGEROUS_CHARS (the grave accent cannot be written in a TLA+ string and
\* is the character named "backtick").
DANGEROUS_CHARS == {";", "|", "&", ">", "<", "$", "backtick", "\n", "\r"}

\* validateStaticSafety(values) returns (TRUE) or throws (FALSE).
validateStaticSafety(values) ==
    \A i \in 1..Len(values) : \A ch \in DANGEROUS_CHARS : ~includes(values[i], <<ch>>)

\* "auto:uid-from-path"
sAuto == <<"a", "u", "t", "o", ":", "u", "i", "d", "-", "f", "r", "o", "m", "-",
           "p", "a", "t", "h">>
\* "/var/www/html"
sVarWwwHtml == <<"/", "v", "a", "r", "/", "w", "w", "w", "/", "h", "t", "m", "l">>
\* "www-data"
sWwwData == <<"w", "w", "w", "-", "d", "a", "t", "a">>
\* "/bin/bash"
sBinBash == <<"/", "b", "i", "n", "/", "b", "a", "s", "h">>

\* String.prototype.split(sep) for a one-character separator.
RECURSIVE splitFrom(_, _, _, _)
splitFrom(s, sep, i, cur) ==
    IF i > Len(s) THEN <<cur>>
    ELSE IF s[i] = sep THEN <<cur>> \o splitFrom(s, sep, i + 1, <<>>)
    ELSE splitFrom(s, sep, i + 1, Append(cur, s[i]))

split(s, sep) == splitFrom(s, sep, 1, <<>>)

\* String.prototype.trim
RECURSIVE trim(_)
trim(s) ==
    IF s = <<>> THEN s
    ELSE IF Head(s) \in {" ", "\n", "\r"} THEN trim(Tail(s))
    ELSE IF s[Len(s)] \in {" ", "\n", "\r"} THEN trim(SubSeq(s, 1, Len(s) - 1))
    ELSE s

\* uidCache.get(key): undefined is modelled by the empty (falsy) string.
cacheGet(cache, key) == IF key \in DOMAIN cache THEN cache[key] ELSE <<>>

\* uidCache.set(key, value)
cacheSet(cache, key, value) == (key :> value) @@ cache

\* resolveContainerUser up to its await: the user to run as, or the cache
\* key whose owner lookup (stat, as root) has been sent to the backend.
resolveContainerUser(user, container, cache) ==
    IF ~startsWith(user, sAuto) THEN [resolved |-> TRUE, user |-> user]
    ELSE LET parts      == split(user, ":")
             targetPath == IF Len(parts) > 2 THEN parts[3] ELSE sVarWwwHtml
             cacheKey   == <<container, targetPath>>
             cached     == cacheGet(cache, cacheKey)
         IN  IF cached # <<>>
             THEN [resolved |-> TRUE, user |-> cached]
             ELSE [resolved |-> FALSE, cacheKey |-> cacheKey]

\* resolveContainerUser after its await: what is cached and returned for the
\* lookup's outcome (its output, or its failure).
uidAfterStat_untrimmed(outcome) ==
    IF outcome.ok /\ outcome.stdout # <<>> THEN outcome.stdout ELSE sWwwData

uidAfterStat(outcome) ==
    IF outcome.ok /\ trim(outcome.stdout) # <<>>
    THEN trim(outcome.stdout)
    ELSE sWwwData

\* Project names are written with one symbol each.
sDefaultProject == <<"default-project">>
sSiteA          == <<"siteA">>
sSiteB          == <<"siteB">>

\* "belongs to"
sBelongsTo == <<"b", "e", "l", "o", "n", "g", "s", " ", "t", "o">>

\* The message of the Error execCommand rejects with for docker inspect: the
\* command line, which ends with the container name, then what the command
\* printed on stderr.
inspectFailure(container, stderr) ==
    <<"Command failed: docker inspect --format {{...}} ">> \o container
        \o <<"\n">> \o stderr

\* validateContainer after its await: "mismatch" (throws its own Error),
\* "rethrown" (the query failed with a message that includes "belongs to",
\* which the catch throws on), else "cached": the key is put in the cache,
\* whether the label was read or the query failed.
validateContainer(outcome, project, container) ==
    IF outcome.ok
    THEN IF project # sDefaultProject /\ trim(outcome.stdout) # project
         THEN "mismatch"
         ELSE "cached"
    ELSE IF includes(inspectFailure(container, outcome.stderr), sBelongsTo)
         THEN "rethrown"
         ELSE "cached"

-----------------------------------------------------------------------------
(* Tool definitions and executors.                                         *)

\* An absent (undefined) string field: a marker that is no string.
Absent == <<"undefined">>

\* !value for a string field of a definition.
Falsy(str) == str = Absent \/ str = <<>>

\* new CommandToolExecutor(options), container variant: the executor, or
\* the Error of the static safety check.
ContainerCommandExecutor(cfg) ==
    LET shell == IF cfg.shell = Absent THEN sBinBash ELSE cfg.shell IN
    IF ~validateStaticSafety(<<shell, <<"-", "c">>>>)
    THEN [threw |-> TRUE]
    ELSE [threw |-> FALSE,
          class |-> "command", variant |-> "container", backend |-> "docker",
          commandTemplate |-> cfg.command_template,
          container |-> cfg.container,
          ddevProject |-> ddevProject,
          user |-> IF cfg.user = Absent THEN sWwwData ELSE cfg.user,
          shell |-> shell,
          defaultArgs |-> cfg.default_args,
          disallowedCommands |-> cfg.disallowed_commands,
          validationRules |-> cfg.validation_rules]

\* new CommandToolExecutor(options), injected-backend variant, with the
\* options the registry passes: no host and no executor among them.
InjectedCommandExecutor(cfg) ==
    [threw |-> FALSE,
     class |-> "command", variant |-> "injected", backend |-> "undefined",
     commandTemplate |-> cfg.command_template,
     shell |-> IF cfg.shell = Absent THEN sBinBash ELSE cfg.shell,
     defaultArgs |-> cfg.default_args,
     disallowedCommands |-> cfg.disallowed_commands,
     validationRules |-> cfg.validation_rules]

\* new McpProxyExecutor(options)
McpProxyExecutor(cfg) ==
    [threw |-> FALSE, class |-> "proxy",
     serverUrl |-> cfg.server_url, forwardArgs |-> cfg.forward_args]

NullExecutor == [threw |-> TRUE]

\* ToolRegistry.createExecutor: the executor, or null (NullExecutor).
createExecutor(toolConfig) ==
    LET type == IF toolConfig.type = "absent" THEN "command" ELSE toolConfig.type IN
    CASE type = "command" ->
            IF Falsy(toolConfig.command_template) THEN NullExecutor
            ELSE IF variant = "container"
                 THEN ContainerCommandExecutor(toolConfig)
                 ELSE InjectedCommandExecutor(toolConfig)
      [] type = "mcp_server" ->
            IF Falsy(toolConfig.server_url) THEN NullExecutor
            ELSE McpProxyExecutor(toolConfig)
      [] OTHER -> NullExecutor

\* A map that keeps the first value set under a key.
toolsSet_keepFirst(map, name, registered) ==
    IF \E i \in 1..Len(map) : map[i].name = name THEN map ELSE Append(map, registered)

\* Map.prototype.set on the tool map: a present key keeps its place.
toolsSet(map, name, registered) ==
    IF \E i \in 1..Len(map) : map[i].name = name
    THEN [i \in 1..Len(map) |-> IF map[i].name = name THEN registered ELSE map[i]]
    ELSE Append(map, registered)

\* getToolNames()
getToolNames == {tools[i].name : i \in 1..Len(tools)}

\* this.tools.get(name), for a name that is a key.
getTool(name) == tools[CHOOSE i \in 1..Len(tools) : tools[i].name = name]

\* The entry loadTools turns to after entry e of file f: the next entry of
\* the file, else the first entry of the next file that has one.
RECURSIVE nextEntry(_, _)
nextEntry(f, e) ==
    IF f > Len(configFiles) THEN [file |-> f, entry |-> 1, pc |-> "done"]
    ELSE IF e < Len(configFiles[f]) THEN [file |-> f, entry |-> e + 1, pc |-> "load"]
    ELSE nextEntry(f + 1, 0)

\* loadTools, one entry of one file: loadSingleTool on it, up to its return
\* or to the await of remote discovery. An entry that is no record makes
\* toolConfig.name throw, which ends the loading of its file.
LoadSingleTool ==
    /\ loadAt.pc = "load"
    /\ LET toolConfig == configFiles[loadAt.file][loadAt.entry]
           following  == nextEntry(loadAt.file, loadAt.entry)
       IN  IF toolConfig.kind = "null"
           THEN /\ loadAt' = nextEntry(loadAt.file + 1, 0)
                /\ UNCHANGED <<tools, loadedCount, registrations>>
           ELSE IF Falsy(toolConfig.name) \/ toolConfig.enabled = FALSE
           THEN /\ loadAt' = following
                /\ UNCHANGED <<tools, loadedCount, registrations>>
           ELSE LET executor == createExecutor(toolConfig) IN
                IF executor.threw
                THEN /\ loadAt' = following
                     /\ UNCHANGED <<tools, loadedCount, registrations>>
                ELSE IF toolConfig.type = "mcp_server" /\ toolConfig.expose_remote_tools
                THEN /\ loadAt' = [loadAt EXCEPT !.pc = "discover"]
                     /\ UNCHANGED <<tools, loadedCount, registrations>>
                ELSE LET registered == [name |-> toolConfig.name,
                                        config |-> toolConfig,
                                        executor |-> executor]
                     IN  /\ tools' = toolsSet(tools, toolConfig.name, registered)
                         /\ registrations' =
                               Append(registrations,
                                      [at |-> <<loadAt.file, loadAt.entry>>,
                                       registered |-> registered])
                         /\ loadedCount' = loadedCount + 1
                         /\ loadAt' = following
    /\ UNCHANGED <<config, caches, calls, probe, discoveries>>

-----------------------------------------------------------------------------
(* ToolRegistry.executeTool and the executors' execute, between awaits.    *)

Callers == 1..MaxCallers

\* The ToolExecutionResult { content, isError } a call resolves to; content is
\* a fixed text around a variable one, and an absent isError is FALSE.
Result(prefix, text, suffix, isError) ==
    [kind |-> "result",
     content |-> [prefix |-> prefix, text |-> text, suffix |-> suffix],
     isError |-> isError]

\* The call's promise rejects: the exception left executeTool.
Rejected(error) == [kind |-> "rejected", error |-> error]

Pending == [kind |-> "none"]

IdleCall ==
    [pc |-> "idle", name |-> <<>>, args |-> NoValue, processed |-> NoValue,
     validated |-> FALSE, executed |-> FALSE, user |-> Absent, cacheKey |-> <<>>,
     cmdStr |-> Absent, backend |-> <<>>, stat |-> NoValue, inspect |-> NoValue,
     ownership |-> "none", request |-> NoValue, timer |-> "none", elapsed |-> FALSE,
     response |-> NoValue, exec |-> NoValue, outcome |-> Pending]

\* Array.prototype.join(", ")
RECURSIVE join(_)
join(names) ==
    IF names = <<>> THEN <<>>
    ELSE IF Len(names) = 1 THEN names[1]
    ELSE names[1] \o <<",", " ">> \o join(Tail(names))

\* Depth of the recursion normalize makes on a value.
RECURSIVE nesting(_)
nesting(v) ==
    LET max(S) == IF S = {} THEN 0 ELSE CHOOSE n \in S : \A m \in S : m <= n IN
    CASE v.t = "arr" -> 1 + max({nesting(v.items[i]) : i \in 1..Len(v.items)})
      [] v.t = "obj" -> 1 + max({nesting(v.entries[i].v) : i \in 1..Len(v.entries)})
      [] OTHER -> 1

\* this.argPreprocessor(args) as executeTool calls it: the new structure, or
\* the RangeError of a recursion that outgrows the call stack.
preprocess(args) ==
    IF nesting(args) > MaxCallStack
    THEN [threw |-> TRUE]
    ELSE [threw |-> FALSE, value |-> argPreprocessor(args)]

\* (e as Error).message of what validateArguments threw.
validationMessage(v) ==
    CASE v.kind = "rule"    -> [prefix |-> "Validation error: ", text |-> v.msg]
      [] v.kind = "missing" -> [prefix |-> "Validation error: Missing required arguments: ",
                                text |-> join(v.names)]
      [] v.kind = "syntax"  -> [prefix |-> "Validation error: Invalid regular expression",
                                text |-> <<>>]

\* execute of the container variant from the statement after
\* "await resolveContainerUser" to its next await or return. vc is the
\* ownership cache as it is when validateContainer is entered.
afterUser(call, ex, user, vc) ==
    LET mergedArgs == mergeArgs(ex.defaultArgs, call.processed)
        c  == [call EXCEPT !.user = user]
        r  == render(ex.commandTemplate, mergedArgs)
    IN  IF /\ HasKey(mergedArgs, kCommand)
           /\ Get(mergedArgs, kCommand).t = "str"
           /\ Get(mergedArgs, kCommand).s \in ex.disallowedCommands
        THEN [c EXCEPT !.pc = "done",
                       !.outcome = Result("Error: Command '", Get(mergedArgs, kCommand).s,
                                          "' is not allowed", TRUE)]
        ELSE IF ~r.ok
        THEN [c EXCEPT !.pc = "done",
                       !.outcome = Result("Error: Missing required argument: ", r.key, "", TRUE)]
        ELSE LET ruleError == checkRules(ex, r.s)
                 d == [c EXCEPT !.cmdStr = r.s]
             IN  IF ruleError.kind = "throw"
                 THEN \* execute rejects; executeTool's catch wraps the error
                      [d EXCEPT !.pc = "done",
                                !.outcome = Result("Error: Invalid regular expression",
                                                   <<>>, "", TRUE)]
                 ELSE IF Truthy(ruleError)
                 THEN [d EXCEPT !.pc = "done",
                                !.outcome = Result("Validation error: ", ruleError.msg, "", TRUE)]
                 ELSE IF <<ex.container, ex.ddevProject>> \in vc
                 THEN [d EXCEPT !.pc = "awaitExec", !.ownership = "hit",
                                !.backend = Append(@, "exec")]
                 ELSE [d EXCEPT !.pc = "awaitInspect",
                                !.backend = Append(@, "inspect")]

\* execute of the injected-backend variant, whole: the executor the registry
\* constructs has no backend, so reading this.executor.constructor throws
\* inside the try and is wrapped.
executeInjected(call, ex) ==
    LET mergedArgs == mergeArgs(ex.defaultArgs, call.processed)
        r  == render(ex.commandTemplate, mergedArgs)
    IN  IF /\ HasKey(mergedArgs, kCommand)
           /\ Get(mergedArgs, kCommand).t = "str"
           /\ Get(mergedArgs, kCommand).s \in ex.disallowedCommands
        THEN [call EXCEPT !.pc = "done",
                          !.outcome = Result("Error: Command '", Get(mergedArgs, kCommand).s,
                                             "' is not allowed", TRUE)]
        ELSE IF ~r.ok
        THEN [call EXCEPT !.pc = "done",
                          !.outcome = Result("Error: Missing required argument: ", r.key, "", TRUE)]
        ELSE LET ruleError == checkRules(ex, r.s)
                 d == [call EXCEPT !.cmdStr = r.s]
             IN  IF ruleError.kind = "throw"
                 THEN [d EXCEPT !.pc = "done",
                                !.outcome = Result("Error: Invalid regular expression",
                                                   <<>>, "", TRUE)]
                 ELSE IF Truthy(ruleError)
                 THEN [d EXCEPT !.pc = "done",
                                !.outcome = Result("Validation error: ", ruleError.msg, "", TRUE)]
                 ELSE [d EXCEPT !.pc = "done",
                                !.outcome = Result("Execution failed: ", <<"TypeError">>, "", TRUE)]

kMethod == <<"m", "e", "t", "h", "o", "d">>
kParams == <<"p", "a", "r", "a", "m", "s">>
kResult == <<"r", "e", "s", "u", "l", "t">>
kContent == <<"c", "o", "n", "t", "e", "n", "t">>
kError  == <<"e", "r", "r", "o", "r">>
kText   == <<"t", "e", "x", "t">>
kMessage == <<"m", "e", "s", "s", "a", "g", "e">>
kName   == <<"n", "a", "m", "e">>
kArguments == <<"a", "r", "g", "u", "m", "e", "n", "t", "s">>

\* McpProxyExecutor.callTool up to the await of fetch: the method and params
\* handed to rpc (NoValue: undefined).
callToolRequest(ex, args, toolName) ==
    IF toolName # Absent
    THEN [method |-> Str(<<"tools/call">>),
          params |-> Obj(<<KV(kName, Str(toolName)), KV(kArguments, args)>>)]
    ELSE IF HasKey(args, kMethod) /\ Get(args, kMethod).t = "str"
    THEN [method |-> Get(args, kMethod),
          params |-> IF HasKey(args, kParams) /\ Get(args, kParams).t # "null"
                     THEN Get(args, kParams) ELSE Obj(<<>>)]
    ELSE IF ex.forwardArgs
    THEN [method |-> IF HasKey(args, kMethod) THEN Get(args, kMethod) ELSE NoValue,
          params |-> IF HasKey(args, kParams) THEN Get(args, kParams) ELSE NoValue]
    ELSE [method |-> NoValue, params |-> NoValue]

kJsonrpc == <<"j", "s", "o", "n", "r", "p", "c">>
kId      == <<"i", "d">>

\* The body rpc posts: JSON.stringify({jsonrpc: "2.0", method, params, id: 1}),
\* which leaves out a member that is undefined.
rpcBody(request) ==
    Obj(<<KV(kJsonrpc, Str(<<"2", ".", "0">>))>>
        \o (IF request.method = NoValue THEN <<>> ELSE <<KV(kMethod, request.method)>>)
        \o (IF request.params = NoValue THEN <<>> ELSE <<KV(kParams, request.params)>>)
        \o <<KV(kId, Num)>>)

\* McpProxyExecutor.parseResponse: the envelope, or the TypeError of reading
\* a property of null.
parseResponse(result) ==
    IF result.t # "obj"
    THEN [threw |-> FALSE,
          result |-> Result("", IF result.t = "str" THEN result.s ELSE stringify(result),
                            "", FALSE)]
    ELSE IF HasKey(result, kResult)
    THEN [threw |-> FALSE, result |-> Result("", StringOf(Get(result, kResult)), "", FALSE)]
    ELSE IF /\ HasKey(result, kContent)
            /\ Get(result, kContent).t = "arr"
            /\ Len(Get(result, kContent).items) > 0
    THEN LET first == Get(result, kContent).items[1] IN
         IF first.t = "null" THEN [threw |-> TRUE]
         ELSE IF first.t = "obj" /\ HasKey(first, kText) /\ Get(first, kText).t # "null"
         THEN [threw |-> FALSE,
               result |-> Result("", StringOf(Get(first, kText)), "", FALSE)]
         ELSE [threw |-> FALSE, result |-> Result("", stringify(result), "", FALSE)]
    ELSE IF HasKey(result, kError)
    THEN LET err == Get(result, kError) IN
         IF err.t = "null" THEN [threw |-> TRUE]
         ELSE IF err.t = "obj" /\ HasKey(err, kMessage) /\ Get(err, kMessage).t # "null"
         THEN [threw |-> FALSE,
               result |-> Result("RPC Error: ", StringOf(Get(err, kMessage)), "", TRUE)]
         ELSE [threw |-> FALSE, result |-> Result("RPC Error: ", StringOf(err), "", TRUE)]
    ELSE [threw |-> FALSE, result |-> Result("", stringify(result), "", FALSE)]

\* callTool after the await of rpc: the envelope for the response, or for
\* what rpc threw.
callToolOutcome(outcome) ==
    CASE outcome.kind = "response" ->
            IF parseResponse(outcome.body).threw
            THEN Result("Error: ", <<"TypeError">>, "", TRUE)
            ELSE parseResponse(outcome.body).result
      [] outcome.kind = "abort" -> Result("Request timeout after ", <<"10">>, "s", TRUE)
      [] outcome.kind = "http"  -> Result("Error: HTTP ", <<"500">>, "", TRUE)
      [] outcome.kind = "network" -> Result("Error: ", <<"fetch failed">>, "", TRUE)
      [] outcome.kind = "syntax"  -> Result("Error: ", <<"Unexpected token">>, "", TRUE)

-----------------------------------------------------------------------------
(* Remote discovery: fetchRemoteTools raced against the init timer.        *)

kTools == <<"t", "o", "o", "l", "s">>

\* fetchRemoteTools from the settling of its rpc: the list it returns.
fetchRemoteTools(outcome) ==
    IF outcome.kind # "response" THEN <<>>
    ELSE LET result == outcome.body IN
         IF result.t = "arr" THEN result.items
         ELSE IF result.t = "obj"
         THEN LET raw == IF HasKey(result, kTools) /\ Get(result, kTools).t # "null"
                         THEN Get(result, kTools)
                         ELSE IF /\ HasKey(result, kResult)
                                 /\ Get(result, kResult).t = "obj"
                                 /\ HasKey(Get(result, kResult), kTools)
                                 /\ Get(Get(result, kResult), kTools).t # "null"
                         THEN Get(Get(result, kResult), kTools)
                         ELSE Arr(<<>>)
              IN  IF raw.t = "arr" THEN raw.items ELSE <<>>
         ELSE <<>>

\* !remote.name for an element of the fetched list that is not null.
NoRemoteName(remote) ==
    \/ remote.t # "obj"
    \/ ~HasKey(remote, kName)
    \/ Get(remote, kName).t = "null"
    \/ Get(remote, kName) = Str(<<>>)

\* new BoundRemoteToolExecutor(proxy, remoteToolName)
BoundRemoteToolExecutor(proxy, remoteToolName) ==
    [threw |-> FALSE, class |-> "bound", proxy |-> proxy,
     remoteToolName |-> remoteToolName]

\* The local name without the prefix.
localNameOf_unprefixed(prefix, remoteName) == remoteName

\* The local name of a discovered tool.
localNameOf(prefix, remoteName) ==
    IF Falsy(prefix) THEN remoteName ELSE prefix \o remoteName

\* The RegisteredTool loadRemoteMcpTools makes of one remote tool.
boundTool(proxyConfig, proxy, remote) ==
    LET remoteName == StringOf(Get(remote, kName))
        localName  == localNameOf(proxyConfig.tool_prefix, remoteName)
    IN  [name |-> localName,
         config |-> [kind |-> "record", name |-> localName, type |-> "mcp_server",
                     server_url |-> proxyConfig.server_url],
         executor |-> BoundRemoteToolExecutor(proxy, remoteName)]

\* The loop of loadRemoteMcpTools from element i on: the tool map, the
\* registrations and the count returned. A null element makes remote.name
\* throw: the catch returns 0 and keeps what the loop has set so far.
RECURSIVE bindFrom(_, _, _, _, _, _, _, _)
bindFrom(proxyConfig, proxy, at, remoteTools, i, map, regs, count) ==
    IF i > Len(remoteTools) THEN [tools |-> map, registrations |-> regs, count |-> count]
    ELSE IF remoteTools[i].t = "null"
    THEN [tools |-> map, registrations |-> regs, count |-> 0]
    ELSE IF NoRemoteName(remoteTools[i])
    THEN bindFrom(proxyConfig, proxy, at, remoteTools, i + 1, map, regs, count)
    ELSE LET registered == boundTool(proxyConfig, proxy, remoteTools[i]) IN
         bindFrom(proxyConfig, proxy, at, remoteTools, i + 1,
                  toolsSet(map, registered.name, registered),
                  Append(regs, [at |-> at, registered |-> registered]),
                  count + 1)

\* loadRemoteMcpTools after the race, for the list the fetch won it with.
loadRemoteMcpTools(proxyConfig, proxy, at, remoteTools) ==
    bindFrom(proxyConfig, proxy, at, remoteTools, 1, tools, registrations, 0)

-----------------------------------------------------------------------------
(* The bridge at work: the tool files are loaded, then callers dispatch.   *)

sRun  == <<"r", "u", "n">>
sBad  == <<"b", "a", "d">>
sPx   == <<"p", "x">>
sNope == <<"n", "o", "p", "e">>
sWeb  == <<"w", "e", "b">>
sUrl  == <<"http://remote/mcp">>
sPing == <<"p", "i", "n", "g">>

\* A tool definition as read from a YAML file, absent fields included.
Definition ==
    [kind |-> "record", name |-> Absent, enabled |-> TRUE, type |-> "absent",
     command_template |-> Absent, container |-> sWeb, user |-> Absent, shell |-> Absent,
     default_args |-> Obj(<<>>), disallowed_commands |-> {}, validation_rules |-> <<>>,
     server_url |-> Absent, forward_args |-> TRUE, expose_remote_tools |-> FALSE,
     tool_prefix |-> Absent]

\* run: "{command} {path}" in the web container as the owner of the docroot;
\* rm is disallowed.
RunTool ==
    [Definition EXCEPT !.name = sRun, !.type = "command",
                       !.command_template = Ph(kCommand) \o <<" ">> \o Ph(kPath),
                       !.user = sAuto,
                       !.default_args = Obj(<<KV(kPath, Str(sDir))>>),
                       !.disallowed_commands = {sRm}]

\* bad: a command tool whose shell is "sh;".
BadTool ==
    [Definition EXCEPT !.name = sBad, !.command_template = sLs,
                       !.shell = <<"s", "h", ";">>]

\* px: a proxy to a remote server, not exposing the remote tools.
PxTool ==
    [Definition EXCEPT !.name = sPx, !.type = "mcp_server", !.server_url = sUrl]

DisabledTool == [RunTool EXCEPT !.name = sNope, !.enabled = FALSE]

sRemote == <<"r", "e", "m", "o", "t", "e">>
sPrefix == <<"r", "e", "m", "o", "t", "e", "_">>

\* remote: a proxy that exposes the tools of its server as remote_<name>.
RemoteTool ==
    [Definition EXCEPT !.name = sRemote, !.type = "mcp_server", !.server_url = sUrl,
                       !.expose_remote_tools = TRUE, !.tool_prefix = sPrefix]

ToolFiles == << <<RunTool, BadTool, DisabledTool>>, <<PxTool, RemoteTool>> >>

\* An array nested n deep around a string.
RECURSIVE nested(_)
nested(n) == IF n = 0 THEN Str(sFile) ELSE Arr(<<nested(n - 1)>>)

\* The (name, arguments) pairs callers dispatch.
DispatchInputs ==
    { [name |-> sNope, args |-> Obj(<<>>)],
      [name |-> sBad,  args |-> Obj(<<>>)],
      [name |-> sRun,  args |-> Obj(<<KV(kCommand, Str(sRm))>>)],
      [name |-> sRun,  args |-> Obj(<<KV(kCommand, Str(sLs)), KV(kPath, Str(sFile))>>)],
      [name |-> sRun,  args |-> Obj(<<>>)],
      [name |-> sPx,   args |-> Obj(<<KV(kMethod, Str(sPing))>>)],
      [name |-> sPx,   args |-> Obj(<<KV(kPath, Str(sFile))>>)],
      [name |-> sPrefix \o sPing, args |-> Obj(<<KV(kPath, Str(sFile))>>)],
      [name |-> sPx,   args |-> Obj(<<KV(kParams, nested(MaxCallStack))>>)] }

s33 == <<"3", "3">>

\* What the backend answers to the owner lookup, the label query and the
\* command: output on success, stderr on failure.
StatOutcomes ==
    { [ok |-> TRUE,  stdout |-> s33 \o <<"\n">>],
      [ok |-> TRUE,  stdout |-> <<"\n">>],
      [ok |-> FALSE, stderr |-> <<"No such container">>] }

InspectOutcomes ==
    { [ok |-> TRUE,  stdout |-> sSiteA \o <<"\n">>],
      [ok |-> TRUE,  stdout |-> sSiteB \o <<"\n">>],
      [ok |-> FALSE, stderr |-> <<"No such object">>],
      [ok |-> FALSE, stderr |-> <<"socket ">> \o sBelongsTo \o <<" root">>] }

ExecOutcomes ==
    { [ok |-> TRUE,  stdout |-> <<"o", "k", "\n">>],
      [ok |-> FALSE, stderr |-> <<"exit 1">>] }

\* What fetch settles with in rpc: a response with a 2xx status, one with
\* another status, or a network failure.
FetchOutcomes == { [kind |-> "headers"], [kind |-> "http"], [kind |-> "network"] }

\* What response.json() settles with: the parsed body, or a SyntaxError.
RpcBodies ==
    { [kind |-> "response", body |-> Obj(<<KV(kResult, Str(<<"p", "o", "n", "g">>))>>)],
      [kind |-> "response", body |-> Obj(<<KV(kError, Null)>>)],
      [kind |-> "syntax"] }

Init ==
    /\ hostRoot = <<"/", "w">>
    /\ containerRoot = <<"/", "v">>
    /\ variant \in {"container", "injected"}
    /\ ddevProject \in {sDefaultProject, sSiteB}
    /\ configFiles = ToolFiles
    /\ loadAt = nextEntry(1, 0)
    /\ tools = <<>>
    /\ loadedCount = 0
    /\ registrations = <<>>
    /\ discoveries = <<>>
    /\ validatedContainers = {}
    /\ uidCache = <<>>
    /\ calls = [p \in Callers |-> IdleCall]
    /\ probe = NoValue

\* What the remote answers to tools/list, as rpc settles for fetchRemoteTools.
RemotePing == Obj(<<KV(kName, Str(sPing))>>)

ListOutcomes ==
    { [kind |-> "response", body |-> Obj(<<KV(kTools, Arr(<<RemotePing>>))>>)],
      [kind |-> "response", body |-> Arr(<<RemotePing, RemotePing>>)],
      [kind |-> "response",
       body |-> Obj(<<KV(kResult, Obj(<<KV(kTools, Arr(<<RemotePing>>))>>))>>)],
      [kind |-> "response", body |-> Obj(<<KV(kTools, Arr(<<>>))>>)],
      [kind |-> "response", body |-> Obj(<<KV(kTools, Arr(<<Obj(<<>>), Str(sPing)>>))>>)],
      [kind |-> "response", body |-> Obj(<<KV(kTools, Arr(<<RemotePing, Null>>))>>)],
      [kind |-> "response", body |-> Str(sPing)],
      [kind |-> "http"] }

\* discoveries.set(at, entry)
discovered(at, timedOut, fetched) ==
    (at :> [timedOut |-> timedOut, fetched |-> fetched]) @@ discoveries

\* loadRemoteMcpTools: fetchRemoteTools settles before the init timer fires,
\* and the tools of its list are bound and registered.
DiscoveryFetched ==
    /\ loadAt.pc = "discover"
    /\ \E outcome \in ListOutcomes :
          LET proxyConfig == configFiles[loadAt.file][loadAt.entry]
              at          == <<loadAt.file, loadAt.entry>>
              remoteTools == fetchRemoteTools(outcome)
              bound       == loadRemoteMcpTools(proxyConfig, createExecutor(proxyConfig),
                                                at, remoteTools)
          IN  /\ tools' = bound.tools
              /\ registrations' = bound.registrations
              /\ loadedCount' = loadedCount + bound.count
              /\ discoveries' = discovered(at, FALSE, Arr(remoteTools))
    /\ loadAt' = nextEntry(loadAt.file, loadAt.entry)
    /\ UNCHANGED <<config, caches, calls, probe>>

\* loadRemoteMcpTools: the init timer fires first; the race rejects, the
\* catch returns 0, and the fetch is left running.
DiscoveryTimeout ==
    /\ loadAt.pc = "discover"
    /\ discoveries' = discovered(<<loadAt.file, loadAt.entry>>, TRUE, NoValue)
    /\ loadAt' = nextEntry(loadAt.file, loadAt.entry)
    /\ UNCHANGED <<config, tools, loadedCount, registrations, caches, calls, probe>>

\* A late fetch whose list is still bound and registered.
LateFetch_registers ==
    /\ \E at \in DOMAIN discoveries :
          /\ discoveries[at].timedOut
          /\ discoveries[at].fetched = NoValue
          /\ \E outcome \in ListOutcomes :
                LET proxyConfig == configFiles[at[1]][at[2]]
                    remoteTools == fetchRemoteTools(outcome)
                    bound       == loadRemoteMcpTools(proxyConfig, createExecutor(proxyConfig),
                                                      at, remoteTools)
                IN  /\ discoveries' = [discoveries EXCEPT ![at].fetched = Arr(remoteTools)]
                    /\ tools' = bound.tools
                    /\ registrations' = bound.registrations
    /\ UNCHANGED <<config, loadAt, loadedCount, caches, calls, probe>>

\* A fetch that lost the race settles: nothing awaits its list any more.
LateFetch ==
    /\ \E at \in DOMAIN discoveries :
          /\ discoveries[at].timedOut
          /\ discoveries[at].fetched = NoValue
          /\ \E outcome \in ListOutcomes :
                discoveries' = [discoveries EXCEPT
                                   ![at].fetched = Arr(fetchRemoteTools(outcome))]
    /\ UNCHANGED <<config, loadAt, tools, loadedCount, registrations, caches, calls, probe>>

\* executeTool's answer for a name that is no key of the tool map.
UnknownTool_notError(name) == Result("Error: Unknown tool '", name, "'", FALSE)

UnknownTool(name) == Result("Error: Unknown tool '", name, "'", TRUE)

\* executeTool(name, args) from its entry to its return or first pending
\* await: lookup, validateArguments, the preprocessor, then execute.
executeTool(name, args) ==
    LET c0 == [IdleCall EXCEPT !.name = name, !.args = args] IN
    IF name \notin getToolNames
    THEN [c0 EXCEPT !.pc = "done", !.outcome = UnknownTool(name)]
    ELSE LET ex == getTool(name).executor
             v  == IF ex.class = "command"
                   THEN validateArguments(ex, args)
                   ELSE [threw |-> FALSE]
             c1 == [c0 EXCEPT !.validated = TRUE]
         IN  IF v.threw
             THEN [c1 EXCEPT !.pc = "done",
                             !.outcome = Result(validationMessage(v).prefix,
                                                validationMessage(v).text, "", TRUE)]
             ELSE LET pre == preprocess(args) IN
                  IF pre.threw
                  THEN [c1 EXCEPT !.pc = "done", !.outcome = Rejected("RangeError")]
                  ELSE LET c2 == [c1 EXCEPT !.processed = pre.value, !.executed = TRUE] IN
                       IF ex.class = "proxy"
                       THEN [c2 EXCEPT !.pc = "awaitRpc", !.timer = "armed",
                                       !.request = callToolRequest(ex, pre.value, Absent),
                                       !.backend = Append(@, "rpc")]
                       ELSE IF ex.class = "bound"
                       THEN [c2 EXCEPT !.pc = "awaitRpc", !.timer = "armed",
                                       !.request = callToolRequest(ex.proxy, pre.value,
                                                                   ex.remoteToolName),
                                       !.backend = Append(@, "rpc")]
                       ELSE IF ex.variant = "injected"
                       THEN executeInjected(c2, ex)
                       ELSE LET r == resolveContainerUser(ex.user, ex.container, uidCache) IN
                            IF r.resolved
                            THEN afterUser(c2, ex, r.user, validatedContainers)
                            ELSE [c2 EXCEPT !.pc = "awaitStat", !.cacheKey = r.cacheKey,
                                            !.backend = Append(@, "stat")]

\* A caller dispatches a tool call; the server takes calls once main has
\* awaited loadTools.
ExecuteTool(p) ==
    /\ loadAt.pc = "done"
    /\ calls[p].pc = "idle"
    /\ \E in \in DispatchInputs :
          calls' = [calls EXCEPT ![p] = executeTool(in.name, in.args)]
    /\ UNCHANGED <<config, loading, caches, probe>>

\* The owner lookup of resolveContainerUser settles: the UID (or the
\* fallback) is cached and returned, and execute goes on.
StatCompletes(p) ==
    /\ calls[p].pc = "awaitStat"
    /\ \E outcome \in StatOutcomes :
          LET ex  == getTool(calls[p].name).executor
              uid == uidAfterStat(outcome)
          IN  /\ uidCache' = cacheSet(uidCache, calls[p].cacheKey, uid)
              /\ calls' = [calls EXCEPT ![p] =
                              afterUser([calls[p] EXCEPT !.stat = outcome], ex, uid,
                                        validatedContainers)]
    /\ UNCHANGED <<config, loading, validatedContainers, probe>>

\* An execute that gives up when validateContainer throws.
afterValidateContainer_blocks(call, outcome, vr) ==
    IF vr = "cached"
    THEN [call EXCEPT !.pc = "awaitExec", !.inspect = outcome, !.ownership = vr,
                      !.backend = Append(@, "exec")]
    ELSE [call EXCEPT !.pc = "done", !.inspect = outcome, !.ownership = vr,
                      !.outcome = Result("Error: Container belongs to another project",
                                         <<>>, "", TRUE)]

\* execute after "await validateContainer": what it threw is caught and
\* logged, and dockerExec is started on the rendered command.
afterValidateContainer(call, outcome, vr) ==
    [call EXCEPT !.pc = "awaitExec", !.inspect = outcome, !.ownership = vr,
                 !.backend = Append(@, "exec")]

\* The envelope execute makes of what dockerExec gave.
execResult(outcome) ==
    IF outcome.ok
    THEN Result("", trim(outcome.stdout), "", FALSE)
    ELSE Result("Execution failed: Command failed: ", outcome.stderr, "", TRUE)

\* The label query of validateContainer settles; whatever it gives, execute
\* only warns and goes on to run the command.
InspectCompletes(p) ==
    /\ calls[p].pc = "awaitInspect"
    /\ \E outcome \in InspectOutcomes :
          LET ex == getTool(calls[p].name).executor
              vr == validateContainer(outcome, ex.ddevProject, ex.container)
          IN  /\ validatedContainers' =
                    IF vr = "cached"
                    THEN validatedContainers \cup {<<ex.container, ex.ddevProject>>}
                    ELSE validatedContainers
              /\ calls' = [calls EXCEPT ![p] = afterValidateContainer(calls[p], outcome, vr)]
    /\ UNCHANGED <<config, loading, uidCache, probe>>

\* An execute that runs the command once more when dockerExec rejects.
ExecCompletes_retries(p) ==
    /\ calls[p].pc = "awaitExec"
    /\ \E outcome \in ExecOutcomes :
          calls' = [calls EXCEPT ![p] =
                       IF ~outcome.ok /\ calls[p].exec = NoValue
                       THEN [calls[p] EXCEPT !.exec = outcome,
                                             !.backend = Append(@, "exec")]
                       ELSE [calls[p] EXCEPT !.pc = "done", !.exec = outcome,
                                             !.outcome = execResult(outcome)]]
    /\ UNCHANGED <<config, loading, caches, probe>>

\* dockerExec of the rendered command settles.
ExecCompletes(p) ==
    /\ calls[p].pc = "awaitExec"
    /\ \E outcome \in ExecOutcomes :
          calls' = [calls EXCEPT ![p] =
                       [calls[p] EXCEPT !.pc = "done", !.exec = outcome,
                                        !.outcome = execResult(outcome)]]
    /\ UNCHANGED <<config, loading, caches, probe>>

\* rpc: fetch settles before the timer fires. The finally clears the timer;
\* a 2xx response goes on to response.json(), anything else is thrown to
\* callTool's catch.
FetchSettles(p) ==
    /\ calls[p].pc = "awaitRpc"
    /\ \E outcome \in FetchOutcomes :
          calls' = [calls EXCEPT ![p] =
                       IF outcome.kind = "headers"
                       THEN [calls[p] EXCEPT !.pc = "awaitBody", !.timer = "cleared"]
                       ELSE [calls[p] EXCEPT !.pc = "done", !.timer = "cleared",
                                             !.outcome = callToolOutcome(outcome)]]
    /\ UNCHANGED <<config, loading, caches, probe>>

\* The configured timeout elapses on a request not yet answered in full. A
\* timer still armed aborts the fetch, whose AbortError callTool turns into
\* the timeout envelope; a timer already cleared does nothing.
TimeoutElapses(p) ==
    /\ calls[p].pc \in {"awaitRpc", "awaitBody"}
    /\ ~calls[p].elapsed
    /\ calls' = [calls EXCEPT ![p] =
                    IF calls[p].timer = "armed"
                    THEN [calls[p] EXCEPT !.pc = "done", !.elapsed = TRUE,
                                          !.timer = "cleared",
                                          !.outcome = callToolOutcome([kind |-> "abort"])]
                    ELSE [calls[p] EXCEPT !.elapsed = TRUE]]
    /\ UNCHANGED <<config, loading, caches, probe>>

\* response.json() settles and callTool parses the body.
BodyArrives(p) ==
    /\ calls[p].pc = "awaitBody"
    /\ \E outcome \in RpcBodies :
          calls' = [calls EXCEPT ![p] =
                       [calls[p] EXCEPT !.pc = "done", !.response = outcome,
                                        !.outcome = callToolOutcome(outcome)]]
    /\ UNCHANGED <<config, loading, caches, probe>>

NextLoad ==
    \/ LoadSingleTool
    \/ DiscoveryFetched
    \/ DiscoveryTimeout
    \/ LateFetch

Next ==
    \/ NextLoad
    \/ \E p \in Callers : ExecuteTool(p)
    \/ \E p \in Callers : StatCompletes(p)
    \/ \E p \in Callers : InspectCompletes(p)
    \/ \E p \in Callers : ExecCompletes(p)
    \/ \E p \in Callers : FetchSettles(p)
    \/ \E p \in Callers : TimeoutElapses(p)
    \/ \E p \in Callers : BodyArrives(p)

Spec == Init /\ [][Next]_vars

-----------------------------------------------------------------------------
(* Loading on its own, over many tool files.                               *)

sNt == <<"n", "t">>
sUt == <<"u", "t">>

\* Entries a tools array may hold: valid ones (two of them under one name,
\* one under the name discovery gives its tool), and malformed ones.
RunAgain    == [RunTool EXCEPT !.command_template = sLs]
PingTool    == [RunTool EXCEPT !.name = sPrefix \o sPing]
NoTemplate  == [Definition EXCEPT !.name = sNt, !.type = "command"]
UnknownType == [Definition EXCEPT !.name = sUt, !.type = "other", !.command_template = sLs]
NoName      == [RunTool EXCEPT !.name = Absent]
NullEntry   == [kind |-> "null"]

Entries ==
    {RunTool, RunAgain, PingTool, PxTool, RemoteTool,
     BadTool, NoTemplate, UnknownType, NoName, NullEntry}

\* The tools arrays of a file.
ToolsArrays == UNION {[1..n -> Entries] : n \in 0..MaxEntries}

InitLoad ==
    /\ hostRoot = <<"/", "w">>
    /\ containerRoot = <<"/", "v">>
    /\ variant \in {"container", "injected"}
    /\ ddevProject = sDefaultProject
    /\ \E first \in ToolsArrays, second \in ToolsArrays : configFiles = <<first, second>>
    /\ loadAt = nextEntry(1, 0)
    /\ tools = <<>>
    /\ loadedCount = 0
    /\ registrations = <<>>
    /\ discoveries = <<>>
    /\ validatedContainers = {}
    /\ uidCache = <<>>
    /\ calls = <<>>
    /\ probe = NoValue

SpecLoad == InitLoad /\ [][NextLoad]_vars

-----------------------------------------------------------------------------
(* Claims about dispatch.                                                  *)

\* C1: executeTool never lets an exception escape: every call that has
\* completed, on every branch (unknown tool, validateArguments throwing, the
\* argument preprocessor failing, execute throwing or rejecting), completed
\* with a ToolExecutionResult.
C1_NeverThrows ==
    \A p \in Callers : calls[p].pc = "done" => calls[p].outcome.kind = "result"

\* C2: for every name that is no key of the tool map, executeTool returns
\* exactly {content: "Error: Unknown tool '<name>'", isError: true}, having
\* called no executor's validateArguments or execute and no backend.
C2_UnknownToolEnvelope ==
    \A p \in Callers :
        (calls[p].pc # "idle" /\ calls[p].name \notin getToolNames) =>
            /\ calls[p].pc = "done"
            /\ calls[p].outcome =
                  [kind |-> "result",
                   content |-> [prefix |-> "Error: Unknown tool '",
                                text |-> calls[p].name, suffix |-> "'"],
                   isError |-> TRUE]
            /\ ~calls[p].validated
            /\ ~calls[p].executed
            /\ calls[p].backend = <<>>

\* An unknown name and the name of a definition that was not registered have
\* both been dispatched.
C2_Witness ==
    /\ calls[1].pc = "done" /\ calls[1].name = sNope
    /\ calls[2].pc = "done" /\ calls[2].name = sBad
    /\ sBad \notin getToolNames
    /\ getToolNames # {}

\* The static shell value a command definition is constructed with, and the
\* flag, hold a dangerous character.
UnsafeStatic(def) ==
    \E ch \in DANGEROUS_CHARS :
        \/ includes(IF def.shell = Absent THEN sBinBash ELSE def.shell, <<ch>>)
        \/ includes(<<"-", "c">>, <<ch>>)

\* C3: for every command-type definition whose static shell value (or flag)
\* holds a dangerous character, construction of the executor fails and,
\* after loadTools, no tool of that name is registered.
C3_UnsafeNeverRegistered ==
    \A f \in 1..Len(configFiles) : \A e \in 1..Len(configFiles[f]) :
        LET def == configFiles[f][e] IN
        (def.type \in {"command", "absent"} /\ UnsafeStatic(def)) =>
            /\ createExecutor(def).threw
            /\ loadAt.pc = "done" => def.name \notin getToolNames

\* The call is an execute of a command executor whose merged arguments name a
\* disallowed command.
ExecutesDisallowed(p) ==
    /\ calls[p].executed
    /\ getTool(calls[p].name).executor.class = "command"
    /\ LET ex == getTool(calls[p].name).executor
           mergedArgs == mergeArgs(ex.defaultArgs, calls[p].processed)
       IN  /\ HasKey(mergedArgs, kCommand)
           /\ Get(mergedArgs, kCommand).t = "str"
           /\ Get(mergedArgs, kCommand).s \in ex.disallowedCommands

\* C4: every execute whose merged arguments have a disallowed command returns
\* an error envelope and makes no backend invocation of any kind (owner
\* lookup, ownership query or command execution) during the call.
C4_DisallowedNeverReachesBackend ==
    \A p \in Callers :
        ExecutesDisallowed(p) =>
            /\ calls[p].backend = <<>>
            /\ calls[p].pc = "done" =>
                  calls[p].outcome.kind = "result" /\ calls[p].outcome.isError

Ok33 == [ok |-> TRUE, stdout |-> s33 \o <<"\n">>]

\* Number of owner lookups a call sent to the backend.
StatRuns(p) == Cardinality({i \in 1..Len(calls[p].backend) : calls[p].backend[i] = "stat"})

\* C9: when two dispatches resolve the derive-UID-from-path identity for the
\* same key concurrently from an empty cache and the owner lookups for the
\* key (theirs, and any other made for it) succeed with "33", both
\* resolutions return "33", the cache holds "33" for the key, and the lookup
\* ran once per resolution, with one and the same result.
C9_ConcurrentResolutionsAgree ==
    \A p \in Callers : \A q \in Callers \ {p} :
        (/\ calls[p].stat = Ok33
         /\ calls[q].stat = Ok33
         /\ calls[p].cacheKey = calls[q].cacheKey
         /\ \A r \in Callers :
               (calls[r].stat # NoValue /\ calls[r].cacheKey = calls[p].cacheKey)
                   => calls[r].stat = Ok33) =>
            /\ calls[p].user = s33
            /\ calls[q].user = s33
            /\ cacheGet(uidCache, calls[p].cacheKey) = s33
            /\ StatRuns(p) = 1 /\ StatRuns(q) = 1

\* Both callers missed the cache, both lookups gave "33", both calls ended.
C9_Witness ==
    /\ calls[1].stat = Ok33 /\ calls[2].stat = Ok33
    /\ calls[1].cacheKey = <<sWeb, sVarWwwHtml>>
    /\ calls[2].cacheKey = <<sWeb, sVarWwwHtml>>
    /\ calls[1].pc = "done" /\ calls[2].pc = "done"

\* C10: validateContainer fails with the ownership mismatch whenever the
\* label is read, differs from the expected project and the expected project
\* is not "default-project"; with "default-project" expected it never fails.
C10_OwnershipValidation ==
    \A p \in Callers :
        calls[p].inspect # NoValue =>
            /\ (/\ calls[p].inspect.ok
                /\ ddevProject # sDefaultProject
                /\ trim(calls[p].inspect.stdout) # ddevProject)
                    => calls[p].ownership = "mismatch"
            /\ ddevProject = sDefaultProject => calls[p].ownership = "cached"

-----------------------------------------------------------------------------
(* Claims about loading and discovery.                                     *)

\* The registrations a definition (by its place in the files) has made.
RegistrationsFrom(at) == SelectSeq(registrations, LAMBDA r : r.at = at)

\* The names remote tools carry in a fetched list, in list order, those
\* without a name left out.
RECURSIVE RemoteNames(_)
RemoteNames(list) ==
    IF list = <<>> THEN <<>>
    ELSE IF NoRemoteName(Head(list)) THEN RemoteNames(Tail(list))
    ELSE <<Get(Head(list), kName).s>> \o RemoteNames(Tail(list))

\* Every element of the fetched list is a tool record or at least not null.
NoNullElement(list) == \A i \in 1..Len(list) : list[i].t # "null"

\* The call has been handed to a bound executor's execute.
BoundDispatch(p) ==
    /\ calls[p].executed
    /\ getTool(calls[p].name).executor.class = "bound"

RegisteredAt(name) == {i \in 1..Len(registrations) : registrations[i].registered.name = name}

LastRegistered(name) == CHOOSE i \in RegisteredAt(name) : \A j \in RegisteredAt(name) : j <= i

\* C12: name collisions are last-write-wins: for every tool name the registry
\* holds exactly one RegisteredTool, whose definition and executor are those
\* of the last registration made under that name, declared or discovered.
C12_LastWriteWins ==
    /\ \A i \in 1..Len(tools) : \A j \in 1..Len(tools) :
          tools[i].name = tools[j].name => i = j
    /\ \A i \in 1..Len(tools) : RegisteredAt(tools[i].name) # {}
    /\ \A k \in 1..Len(registrations) :
          LET name == registrations[k].registered.name IN
          /\ name \in getToolNames
          /\ getTool(name) = registrations[LastRegistered(name)].registered

\* Two registrations under one name, from two definitions that differ, a
\* declared and a discovered one among the collisions reached.
C12_Witness ==
    /\ loadAt.pc = "done"
    /\ \E i \in 1..Len(registrations) : \E j \in 1..Len(registrations) :
          /\ i < j
          /\ registrations[i].registered.name = registrations[j].registered.name
          /\ registrations[i].registered.executor.class = "bound"
          /\ registrations[j].registered.executor.class = "command"

\* C13: the enumeration lists the tools in load order: each enumerated tool
\* stands at the position of the registration that produced its current
\* definition, also when an earlier registration under its name was
\* overwritten.
C13_EnumerationInLoadOrder ==
    \A i \in 1..Len(tools) : \A j \in 1..Len(tools) :
        i < j => LastRegistered(tools[i].name) < LastRegistered(tools[j].name)

\* The definition is valid and enabled, and is to be registered under its
\* own name.
ValidDeclared(def) ==
    /\ def.kind = "record"
    /\ def.name \notin {Absent, <<>>}
    /\ def.enabled
    /\ \/ /\ def.type \in {"command", "absent"}
          /\ def.command_template \notin {Absent, <<>>}
          /\ ~UnsafeStatic(def)
       \/ /\ def.type = "mcp_server"
          /\ def.server_url \notin {Absent, <<>>}
          /\ ~def.expose_remote_tools

\* The entry is malformed: no record, no name, an unknown type, no
\* command_template or server_url, or an unsafe static value.
Malformed(def) ==
    \/ def.kind # "record"
    \/ def.name \in {Absent, <<>>}
    \/ def.type \notin {"command", "absent", "mcp_server"}
    \/ def.type \in {"command", "absent"}
          /\ (def.command_template \in {Absent, <<>>} \/ UnsafeStatic(def))
    \/ def.type = "mcp_server" /\ def.server_url \in {Absent, <<>>}

\* C14: a malformed definition never prevents others from loading: after
\* loadTools every valid, enabled definition is registered, however many
\* malformed entries precede or follow it, and no malformed entry is.
C14_MalformedNeverBlocks ==
    loadAt.pc = "done" =>
        \A f \in 1..Len(configFiles) : \A e \in 1..Len(configFiles[f]) :
            LET def == configFiles[f][e] IN
            /\ ValidDeclared(def) =>
                  /\ def.name \in getToolNames
                  /\ RegistrationsFrom(<<f, e>>) # <<>>
            /\ Malformed(def) => RegistrationsFrom(<<f, e>>) = <<>>

-----------------------------------------------------------------------------
(* Claims about the proxy executor.                                        *)

\* The call has been handed to callTool, which has posted its request.
Proxied(p) == calls[p].executed /\ calls[p].request # NoValue

\* C15: callTool chooses the request so: bound to a remote tool name n, method
\* tools/call with params {name: n, arguments: args}; unbound with a string
\* args.method, that method with args.params verbatim; otherwise, when the
\* proxy forwards arguments, the supplied args are sent to the remote as-is.
C15_RequestChoice ==
    \A p \in Callers :
        Proxied(p) =>
            LET ex   == getTool(calls[p].name).executor
                args == calls[p].processed
                body == rpcBody(calls[p].request)
            IN  IF ex.class = "bound"
                THEN /\ Get(body, kMethod) = Str(<<"tools/call">>)
                     /\ Get(body, kParams) =
                           Obj(<<KV(kName, Str(ex.remoteToolName)), KV(kArguments, args)>>)
                ELSE IF HasKey(args, kMethod) /\ Get(args, kMethod).t = "str"
                THEN /\ Get(body, kMethod) = Get(args, kMethod)
                     /\ HasKey(args, kParams) =>
                           HasKey(body, kParams) /\ Get(body, kParams) = Get(args, kParams)
                ELSE ex.forwardArgs =>
                        \/ HasKey(body, kParams) /\ Get(body, kParams) = args
                        \/ \A i \in 1..Len(args.entries) :
                              /\ HasKey(body, args.entries[i].k)
                              /\ Get(body, args.entries[i].k) = args.entries[i].v

\* The distinct envelope of a timed-out request.
TimeoutEnvelope ==
    [kind |-> "result",
     content |-> [prefix |-> "Request timeout after ", text |-> <<"10">>, suffix |-> "s"],
     isError |-> TRUE]

\* C17: every proxied RPC is bounded by the configured timeout: if the
\* remote has not delivered its complete response (headers and body) within
\* the timeout, callTool returns the timeout envelope, and no other kind of
\* failure, nor a success, ever produces that envelope.
C17_TimeoutBoundsEveryRpc ==
    \A p \in Callers :
        (Proxied(p) /\ calls[p].pc = "done") =>
            (calls[p].elapsed <=> calls[p].outcome = TimeoutEnvelope)

-----------------------------------------------------------------------------
(* parseResponse on its own, over the shapes of a response.                *)

sPong == <<"p", "o", "n", "g">>
sBoom == <<"b", "o", "o", "m">>
sHi   == <<"h", "i">>

\* A member that may be absent: no entry, or the entry for each value.
Member(k, values) == {<<>>} \cup {<<KV(k, v)>> : v \in values}

ResultValues  == {Str(sPong), Null, Obj(<<>>)}
ContentValues == {Arr(<<>>), Arr(<<Obj(<<KV(kText, Str(sHi))>>)>>), Arr(<<Obj(<<>>)>>),
                  Arr(<<Null>>), Str(sHi)}
ErrorValues   == {Obj(<<KV(kMessage, Str(sBoom))>>), Obj(<<>>), Str(sBoom), Null}

\* The responses parsed: bare values, and objects with any of the members
\* result, content and error.
ResponseShapes ==
    {Str(sPong), Num, Null, Arr(<<Str(sPong)>>)}
    \cup {Obj(r \o c \o e) : r \in Member(kResult, ResultValues),
                             c \in Member(kContent, ContentValues),
                             e \in Member(kError, ErrorValues)}

InitParse ==
    /\ NoRegistry
    /\ hostRoot = <<"/", "w">>
    /\ containerRoot = <<"/", "v">>
    /\ \E body \in ResponseShapes :
          probe = [stage |-> "input", body |-> body, envelope |-> NoValue]

\* callTool's return this.parseResponse(result), with its catch.
ParseResponse ==
    /\ probe.stage = "input"
    /\ probe' = [probe EXCEPT !.stage = "parsed",
                              !.envelope = callToolOutcome([kind |-> "response",
                                                            body |-> probe.body])]
    /\ UNCHANGED <<config, loading, caches, calls>>

NextParse == ParseResponse

SpecParse == InitParse /\ [][NextParse]_vars

\* The envelope that succeeds with the given content.
Success(text) ==
    [kind |-> "result", content |-> [prefix |-> "", text |-> text, suffix |-> ""],
     isError |-> FALSE]

\* C16: response parsing by shape: a bare scalar or string yields that value
\* as content; an object with a result field the result; an object with a
\* non-empty content array the first element's text; every object with an
\* error field isError true with the error's message; any other shape the
\* JSON serialisation of the whole. No response that carries an error field
\* is returned as a success.
C16_ParseByShape ==
    probe.stage = "parsed" =>
        LET body == probe.body
            out  == probe.envelope
            hasError   == body.t = "obj" /\ HasKey(body, kError)
            hasResult  == body.t = "obj" /\ HasKey(body, kResult)
            hasContent == /\ body.t = "obj" /\ HasKey(body, kContent)
                          /\ Get(body, kContent).t = "arr"
                          /\ Get(body, kContent).items # <<>>
        IN  /\ body.t = "str" => out = Success(body.s)
            /\ body.t \in {"num", "null", "arr"} => out = Success(stringify(body))
            /\ hasError => out.isError
            /\ (/\ hasError
                /\ Get(body, kError).t = "obj"
                /\ HasKey(Get(body, kError), kMessage))
                   => out.content.text = StringOf(Get(Get(body, kError), kMessage))
            /\ (hasResult /\ ~hasError) => out = Success(StringOf(Get(body, kResult)))
            /\ (/\ hasContent /\ ~hasResult /\ ~hasError
                /\ Get(body, kContent).items[1].t = "obj"
                /\ HasKey(Get(body, kContent).items[1], kText))
                   => out = Success(StringOf(Get(Get(body, kContent).items[1], kText)))
            /\ (body.t = "obj" /\ ~hasError /\ ~hasResult /\ ~hasContent)
                   => out = Success(stringify(body))

-----------------------------------------------------------------------------
(* Claims about the caches and the ownership check.                        *)

\* C19: both process-wide caches are monotonic, concurrent dispatches
\* included: a key once in the ownership cache or in the UID cache is never
\* removed, and its value is never changed by any later operation.
C19_CachesMonotonic ==
    [][/\ validatedContainers \subseteq validatedContainers'
       /\ \A key \in DOMAIN uidCache :
             key \in DOMAIN uidCache' /\ uidCache'[key] = uidCache[key]]_vars

\* The ownership check of the call did not pass: it reported a mismatch, or
\* the query failed (its error swallowed or thrown on).
OwnershipFailed(p) ==
    /\ calls[p].inspect # NoValue
    /\ calls[p].ownership \in {"mismatch", "rethrown"} \/ ~calls[p].inspect.ok

\* C20: ownership validation never blocks a dispatch: on an explicit
\* mismatch and on a failed query alike the dispatch still executes the
\* rendered command on the backend and returns the backend's outcome.
C20_OwnershipNeverBlocks ==
    \A p \in Callers :
        OwnershipFailed(p) =>
            /\ calls[p].backend[Len(calls[p].backend)] = "exec"
            /\ calls[p].cmdStr # Absent
            /\ calls[p].pc \in {"awaitExec", "done"}
            /\ calls[p].pc = "done" =>
                  /\ calls[p].exec # NoValue
                  /\ calls[p].outcome =
                        [kind |-> "result",
                         content |-> IF calls[p].exec.ok
                                     THEN [prefix |-> "", text |-> trim(calls[p].exec.stdout),
                                           suffix |-> ""]
                                     ELSE [prefix |-> "Execution failed: Command failed: ",
                                           text |-> calls[p].exec.stderr, suffix |-> ""],
                         isError |-> ~calls[p].exec.ok]

\* One dispatch ran its command after an explicit mismatch, another after a
\* failed query, and both returned what the backend gave.
C20_Witness ==
    /\ calls[1].pc = "done" /\ calls[1].ownership = "mismatch" /\ calls[1].exec.ok
    /\ calls[2].pc = "done" /\ calls[2].inspect # NoValue /\ ~calls[2].inspect.ok
    /\ calls[2].exec # NoValue


-----------------------------------------------------------------------------
(* resolveContainerUser on its own: several resolutions in flight at once, *)
(* as concurrent execute calls make them.                                  *)

\* Most resolutions in flight at once.
MaxResolvers == 3

Resolvers == 1..MaxResolvers

sW == <<"/", "w">>

\* The user specs resolved: two plain identities, the directive, and the
\* directive with a path.
UserSpecs == {sWwwData, s33, sAuto, sAuto \o <<":">> \o sW}

IdleResolve ==
    [pc |-> "idle", user |-> Absent, cacheKey |-> <<>>, backend |-> <<>>,
     stat |-> NoValue, later |-> FALSE, wrote |-> FALSE, result |-> Absent]

\* The lookup's outcome makes resolveContainerUser fall back: dockerExec
\* rejected, or its output trims to the empty string.
FellBack(outcome) == ~outcome.ok \/ trim(outcome.stdout) = <<>>

InitResolve ==
    /\ variant = "container"
    /\ ddevProject = sDefaultProject
    /\ hostRoot = <<"/", "w">>
    /\ containerRoot = <<"/", "v">>
    /\ configFiles = <<>>
    /\ loadAt = [file |-> 1, entry |-> 1, pc |-> "done"]
    /\ tools = <<>>
    /\ loadedCount = 0
    /\ registrations = <<>>
    /\ discoveries = <<>>
    /\ validatedContainers = {}
    /\ uidCache = <<>>
    /\ probe = NoValue
    /\ calls = [p \in Resolvers |-> IdleResolve]

\* resolveContainerUser(user, container) up to its return or its await.
\* "later" records that a lookup for the same key had by then fallen back.
ResolveStarts(p) ==
    /\ calls[p].pc = "idle"
    /\ \E user \in UserSpecs :
          LET r == resolveContainerUser(user, sWeb, uidCache) IN
          calls' = [calls EXCEPT ![p] =
              IF r.resolved
              THEN [IdleResolve EXCEPT
                       !.pc = "returned", !.user = user, !.result = r.user,
                       !.later = startsWith(user, sAuto) /\
                                 \E q \in Resolvers :
                                     /\ calls[q].stat # NoValue
                                     /\ FellBack(calls[q].stat)
                                     /\ resolveContainerUser(user, sWeb, <<>>).cacheKey
                                            = calls[q].cacheKey]
              ELSE [IdleResolve EXCEPT
                       !.pc = "awaitStat", !.user = user, !.cacheKey = r.cacheKey,
                       !.backend = <<"stat">>,
                       !.later = \E q \in Resolvers :
                                     /\ calls[q].stat # NoValue
                                     /\ FellBack(calls[q].stat)
                                     /\ calls[q].cacheKey = r.cacheKey]]
    /\ UNCHANGED <<config, loading, caches, probe>>

\* The owner lookup settles: the UID or the fallback is cached and returned.
ResolveSettles(p) ==
    /\ calls[p].pc = "awaitStat"
    /\ \E outcome \in StatOutcomes :
          LET uid == uidAfterStat(outcome) IN
          /\ uidCache' = cacheSet(uidCache, calls[p].cacheKey, uid)
          /\ calls' = [calls EXCEPT ![p] =
                          [calls[p] EXCEPT !.pc = "returned", !.stat = outcome,
                                           !.wrote = TRUE, !.result = uid]]
    /\ UNCHANGED <<config, loading, validatedContainers, probe>>

NextResolve ==
    \/ \E p \in Resolvers : ResolveStarts(p)
    \/ \E p \in Resolvers : ResolveSettles(p)

SpecResolve == InitResolve /\ [][NextResolve]_vars

\* C21: resolveContainerUser always returns an identity: a user spec that
\* is not the directive comes back unchanged with no backend call and no
\* cache write; for the directive a failing lookup or an empty output gives
\* "www-data", and every resolution of that key begun after such a lookup
\* returns "www-data" without invoking the backend.
C21_FallbackSticks ==
    \A p \in Resolvers :
        calls[p].pc = "returned" =>
            /\ ~startsWith(calls[p].user, sAuto) =>
                   /\ calls[p].result = calls[p].user
                   /\ calls[p].backend = <<>>
                   /\ ~calls[p].wrote
            /\ (calls[p].stat # NoValue /\ FellBack(calls[p].stat)) =>
                   calls[p].result = sWwwData
            /\ calls[p].later =>
                   /\ calls[p].result = sWwwData
                   /\ calls[p].backend = <<>>


-----------------------------------------------------------------------------
(* execute of a command executor called on its own, on the inputs of the   *)
(* argument-validation specification.                                      *)

\* The disallowed_commands the probed executor is constructed with.
DisallowedSets == {{}, {sLs}, {sRm}}

\* The probed executor: the container variant constructed from the probe's
\* template, defaults and rules, with a fixed identity and target.
ProbedExecutor(disallowed) ==
    ContainerCommandExecutor(
        [command_template |-> probe.ex.commandTemplate,
         container |-> sWeb, user |-> sWwwData, shell |-> Absent,
         default_args |-> probe.ex.defaultArgs,
         disallowed_commands |-> disallowed,
         validation_rules |-> probe.ex.validationRules])

\* executor.execute(args) up to its return or the ownership query; the
\* identity is not the directive, so resolveContainerUser returns at once.
ProbeExecute ==
    /\ probe.stage = "gated"
    /\ calls = <<>>
    /\ \E disallowed \in DisallowedSets :
          LET ex == ProbedExecutor(disallowed)
              r  == resolveContainerUser(ex.user, ex.container, uidCache)
          IN  calls' = << [ex |-> ex,
                           call |-> afterUser([IdleCall EXCEPT !.args = probe.args,
                                                               !.processed = probe.args,
                                                               !.executed = TRUE],
                                              ex, r.user, validatedContainers)] >>
    /\ UNCHANGED <<config, loading, caches, probe>>

NextValidate == ProbeValidateArguments \/ ProbeRenderAndCheck \/ ProbeExecute

SpecValidate == InitValidate /\ [][NextValidate]_vars

\* C22: execute itself always resolves to a ToolExecutionResult and never
\* throws: its rendering and rule check either return an envelope with
\* isError true or let the command proceed, also for a rule whose pattern is
\* not a valid regular expression.
C22_ExecuteNeverThrows ==
    probe.stage = "gated" =>
        /\ probe.gate.out \in {"return", "proceed"}
        /\ probe.gate.out = "return" => probe.gate.isError

\* Some rule with a usable pattern matches the command as rendered.
RuleMatches(ex, cmdStr) ==
    \E i \in 1..Len(ex.validationRules) :
        /\ ex.validationRules[i].pattern # <<>>
        /\ RegExpValid(ex.validationRules[i].pattern)
        /\ RegExpTest(ex.validationRules[i].pattern, cmdStr)

\* C23: execute hands a command to the backend only when the merged command
\* is not disallowed, every placeholder is substituted from the merged
\* arguments, and no validation rule matches the rendered command, which is
\* the template with each placeholder replaced by its stringified merged
\* value; in every other case it returns an envelope with isError true.
C23_GatesBeforeBackend ==
    calls # <<>> =>
        LET ex == calls[1].ex
            c  == calls[1].call
            mergedArgs == mergeArgs(ex.defaultArgs, probe.args)
        IN  IF c.pc = "done"
            THEN c.backend = <<>> /\ c.outcome.kind = "result" /\ c.outcome.isError
            ELSE /\ ~(/\ HasKey(mergedArgs, kCommand)
                      /\ Get(mergedArgs, kCommand).t = "str"
                      /\ Get(mergedArgs, kCommand).s \in ex.disallowedCommands)
                 /\ \A k \in ObjectKeys(probe.args) :
                        Get(mergedArgs, k) = Get(probe.args, k)
                 /\ \A i \in 1..Len(ex.commandTemplate), j \in 1..Len(ex.commandTemplate) :
                        IsPlaceholderOf(ex.commandTemplate, SubSeq(ex.commandTemplate, i, j))
                            => HasKey(mergedArgs, SubSeq(ex.commandTemplate, i, j))
                 /\ c.cmdStr = render(ex.commandTemplate, mergedArgs).s
                 /\ ~RuleMatches(ex, c.cmdStr)


-----------------------------------------------------------------------------
(* Claims about discovery's timer and about re-issued backend calls.       *)

\* C24: when the discovery timer wins the race, loading goes on and the
\* outstanding tools/list request is cancelled at that point: in no state
\* has a definition's discovery timed out, loading moved past it, and its
\* request stayed in flight.
C24_LostFetchIsCancelled ==
    \A at \in DOMAIN discoveries :
        (discoveries[at].timedOut /\ <<loadAt.file, loadAt.entry>> # at)
            => discoveries[at].fetched # NoValue

\* How many times the call invoked the backend in the given way.
Invocations(p, how) ==
    Cardinality({i \in 1..Len(calls[p].backend) : calls[p].backend[i] = how})

\* C25: one executeTool call runs the rendered command on the backend at
\* most once and sends at most one JSON-RPC request, whatever the outcome; a
\* failed attempt is reported as an error envelope and not re-issued.
C25_NoRetries ==
    \A p \in Callers :
        /\ Invocations(p, "exec") <= 1
        /\ Invocations(p, "rpc") <= 1
        /\ (calls[p].pc = "done" /\ calls[p].exec # NoValue /\ ~calls[p].exec.ok) =>
               calls[p].outcome = Result("Execution failed: Command failed: ",
                                         calls[p].exec.stderr, "", TRUE)
        /\ (/\ calls[p].pc = "done"
            /\ Invocations(p, "rpc") = 1
            /\ calls[p].response = NoValue \/ calls[p].response.kind = "syntax") =>
               /\ calls[p].outcome.kind = "result"
               /\ calls[p].outcome.isError

\* One call's command failed on the backend and another's request failed
\* before any body arrived; each was attempted once and reported as an error.
C25_Witness ==
    \E p, q \in Callers :
        /\ calls[p].pc = "done"
        /\ calls[p].exec # NoValue /\ ~calls[p].exec.ok
        /\ Invocations(p, "exec") = 1
        /\ calls[p].outcome.isError
        /\ calls[q].pc = "done"
        /\ Invocations(q, "rpc") = 1
        /\ calls[q].response = NoValue
        /\ calls[q].outcome = Result("Error: ", <<"fetch failed">>, "", TRUE)


\* The call's ownership query completed and reported the expected project
\* for the key (or the expected project is the wildcard).
RealValidation(p, key) ==
    /\ calls[p].inspect # NoValue
    /\ calls[p].inspect.ok
    /\ getTool(calls[p].name).executor.container = key[1]
    /\ getTool(calls[p].name).executor.ddevProject = key[2]
    /\ key[2] = sDefaultProject \/ trim(calls[p].inspect.stdout) = key[2]

\* C26: a key (target, project) is in the ownership cache only after a real
\* validation: a metadata query for it completed successfully and reported
\* the expected project (or the expected project is the wildcard); a failed
\* query or a mismatch never adds the key, so a dispatch that finds the key
\* cached follows a real validation.
C26_CachedOnlyAfterRealValidation ==
    /\ \A key \in validatedContainers :
          \E p \in Callers : RealValidation(p, key)
    /\ \A q \in Callers :
          calls[q].ownership = "hit" =>
              \E p \in Callers :
                  RealValidation(p, <<getTool(calls[q].name).executor.container,
                                      getTool(calls[q].name).executor.ddevProject>>)


-----------------------------------------------------------------------------
(* Claim about the count loadTools returns.                                *)

\* C27: the count loadTools returns equals the number of tools held in the
\* registry when it returns (getToolNames().length), for every set of config
\* files and every discovery outcome, definitions that share a name and a
\* discovery that stops part-way through the remote list included.
C27_CountIsRegistrySize ==
    loadAt.pc = "done" => loadedCount = Cardinality(getToolNames)

=============================================================================
